---- MODULE Spec2Model ----
(***************************************************************************)
(* duck_plus.relation.Relation: the two join operators using_join and      *)
(* asof_join of src/duck_plus/relation.py, modelled as a state machine.    *)
(* One behaviour is one call: Init draws the two relations, the            *)
(* connection and the behaviour of the external engine, an action applies  *)
(* one whole method to one argument tuple and records what the method      *)
(* raised or returned together with every request it sent to the engine.   *)
(* fer holds a chain of FileEntryRelation.apply_transform calls of         *)
(* src/duck_plus/types.py, each made on the result of the one before.      *)
(***************************************************************************)
EXTENDS Integers, Sequences, FiniteSets, TLC

VARIABLES
    left,         \* self.relation: [alias, columns, rows]
    right,        \* other.relation (or other itself): [alias, columns, rows]
    source,       \* self.source, the connection of the receiver
    engine,       \* which column list the native join primitive returns
    pc,           \* "idle" before the call, "done" after it
    call,         \* the arguments of the call
    outcome,      \* what the call raised or returned
    engineCalls,  \* the requests sent to the engine, in order
    fer           \* a chain of FileEntryRelation.apply_transform calls

vars == <<left, right, source, engine, pc, call, outcome, engineCalls, fer>>

-----------------------------------------------------------------------------
(* Bounds of the model *)

MaxCols == 2        \* longest column list of a relation
MaxKeys == 2        \* longest using_columns / by list
MaxOn == 1          \* longest on list
MaxTime == 3        \* comparison values are 1..MaxTime
MaxGroup == 2       \* grouping values are 1..MaxGroup
MaxLeftRows == 1    \* rows of the left relation of an as-of join
MaxRightRows == 2   \* rows of the right relation of an as-of join
MaxCalls == 4       \* apply_transform calls of one chain

-----------------------------------------------------------------------------
(* Names and str.lower() *)

ColumnNames == {"id", "ID", "ts", "v"}
KeyNames == {"id", "ID", "zz"}

\* str.lower() on the names of the model
Lower(s) ==
    CASE s = "ID" -> "id"
      [] s = "TS" -> "ts"
      [] OTHER -> s

\* set(col.lower() for col in cols)
LowerSet(cols) == {Lower(cols[i]) : i \in DOMAIN cols}

\* [col.lower() for col in cols]
LowerList(cols) == [i \in DOMAIN cols |-> Lower(cols[i])]

SeqsUpTo(S, n) == UNION {[1..k -> S] : k \in 0..n}

\* column lists as a table has them: non-empty, no two names equal after
\* case folding
ColumnLists(n) ==
    {cols \in SeqsUpTo(ColumnNames, n) :
        /\ Len(cols) >= 1
        /\ \A i, j \in DOMAIN cols : i # j => Lower(cols[i]) # Lower(cols[j])}

-----------------------------------------------------------------------------
(* Outcomes of a call *)

NoPlan == [op |-> "none"]

NoOutcome ==
    [status |-> "none", error |-> "", exception |-> "",
     missing_left |-> <<>>, missing_right |-> <<>>, sides |-> {},
     columns |-> <<>>, plan |-> NoPlan, rows |-> {}, source |-> ""]

\* raise <exception>(...): error names the raise site by the error of the
\* taxonomy it stands for
Raise(exception, error) ==
    [NoOutcome EXCEPT !.status = "error", !.exception = exception,
                      !.error = error]

\* Relation(result, self.source)
Relation(result, src) ==
    [NoOutcome EXCEPT !.status = "ok", !.columns = result.columns,
                      !.plan = result.plan, !.rows = result.rows,
                      !.source = src]

Raised(out) == [outcome |-> out, calls |-> <<>>]

-----------------------------------------------------------------------------
(* The native join primitive of the engine: left_rel.join(right, keys, how) *)

EngineVariants == {"using", "projected"}
EngineJoinKinds == {"inner", "left", "right", "outer", "full", "semi", "anti"}

NativeJoinRequest(r, keys, kind) ==
    [op |-> "join", right |-> r, keys |-> keys, kind |-> kind]

\* the column list of the relation the primitive returns
NativeJoinColumns(eng, l, r, keys, kind) ==
    LET NotKey(c) == Lower(c) \notin LowerSet(keys)
        NotOnLeft(c) == Lower(c) \notin LowerSet(l.columns)
    IN  IF eng = "using"
        THEN IF kind \in {"semi", "anti"}
             THEN l.columns
             ELSE l.columns \o SelectSeq(r.columns, NotKey)
        ELSE l.columns \o SelectSeq(r.columns, NotOnLeft)

\* result = left_rel.join(right_rel, keys, join_type); return Relation(result, self.source)
NativeJoinDispatch(eng, l, r, src, keys, kind) ==
    LET request == NativeJoinRequest(r, keys, kind)
    IN  IF kind \notin EngineJoinKinds
        THEN [outcome |-> Raise("EngineError", "EngineRejectedJoinKind"),
              calls |-> <<request>>]
        ELSE [outcome |->
                Relation([columns |-> NativeJoinColumns(eng, l, r, keys, kind),
                          plan |-> request, rows |-> {}], src),
              calls |-> <<request>>]

-----------------------------------------------------------------------------
(* Relation.using_join *)

NaturalPrefixed ==
    {"natural", "natural left", "natural right", "natural full",
     "natural outer", "natural semi", "natural anti", "natural bogus"}

\* how.startswith("natural")
StartsWithNatural(how) == how \in NaturalPrefixed

\* using_columns: None is [given |-> FALSE], a list is [given |-> TRUE, cols |-> it]
None == [given |-> FALSE, cols |-> <<>>]
Some(cols) == [given |-> TRUE, cols |-> cols]

ExplicitKeysGiven_GivenOnly(using_columns) == using_columns.given

\* using_columns is not None and len(using_columns) > 0
ExplicitKeysGiven(using_columns) ==
    using_columns.given /\ Len(using_columns.cols) > 0

common_cols_FromRight(left_columns, right_columns) ==
    LET OnLeft(col) == Lower(col) \in LowerSet(left_columns)
    IN  SelectSeq(right_columns, OnLeft)

\* [col for col in left_rel.columns if col.lower() in right_cols_set]
common_cols(left_columns, right_columns) ==
    LET OnRight(col) == Lower(col) \in LowerSet(right_columns)
    IN  SelectSeq(left_columns, OnRight)

NaturalJoinType_LeftAsInner(how) ==
    CASE how \in {"natural", "natural left"} -> "inner"
      [] how = "natural right" -> "right"
      [] how \in {"natural full", "natural outer"} -> "outer"
      [] how = "natural semi" -> "semi"
      [] how = "natural anti" -> "anti"
      [] OTHER -> "unsupported"

\* the if/elif chain that maps how to join_type
NaturalJoinType(how) ==
    CASE how = "natural" -> "inner"
      [] how = "natural left" -> "left"
      [] how = "natural right" -> "right"
      [] how \in {"natural full", "natural outer"} -> "outer"
      [] how = "natural semi" -> "semi"
      [] how = "natural anti" -> "anti"
      [] OTHER -> "unsupported"

HasDuplicates_CaseSensitive(using_columns) ==
    Len(using_columns) # Cardinality({using_columns[i] : i \in DOMAIN using_columns})

\* lowered = [col.lower() ...]; len(lowered) != len(set(lowered))
HasDuplicates(using_columns) ==
    Len(LowerList(using_columns)) # Cardinality(LowerSet(using_columns))

missing_in_CaseSensitive(using_columns, columns) ==
    LET Absent(col) == col \notin {columns[i] : i \in DOMAIN columns}
    IN  SelectSeq(using_columns, Absent)

\* [col for col in using_columns if col.lower() not in cols_set]
missing_in(using_columns, columns) ==
    LET Absent(col) == Lower(col) \notin LowerSet(columns)
    IN  SelectSeq(using_columns, Absent)

\* the ValueError of lines 99-104: a side is named when its list is non-empty
MissingJoinColumn(missing_in_left, missing_in_right) ==
    [Raise("ValueError", "MissingJoinColumn") EXCEPT
        !.missing_left = missing_in_left,
        !.missing_right = missing_in_right,
        !.sides = (IF missing_in_left # <<>> THEN {"left"} ELSE {})
                  \cup (IF missing_in_right # <<>> THEN {"right"} ELSE {})]

using_join(eng, l, r, src, how, using_columns) ==
    IF StartsWithNatural(how)
    THEN IF ExplicitKeysGiven(using_columns)
         THEN Raised(Raise("ValueError", "ExplicitKeysNotAllowedForNaturalJoin"))
         ELSE LET common == common_cols(l.columns, r.columns)
                  join_type == NaturalJoinType(how)
              IN  IF common = <<>>
                  THEN Raised(Raise("ValueError", "NoCommonColumns"))
                  ELSE IF join_type = "unsupported"
                  THEN Raised(Raise("ValueError", "UnsupportedJoinKind"))
                  ELSE NativeJoinDispatch(eng, l, r, src, common, join_type)
    ELSE IF (~using_columns.given) \/ Len(using_columns.cols) = 0
         THEN Raised(Raise("ValueError", "EmptyJoinKeys"))
         ELSE IF HasDuplicates(using_columns.cols)
         THEN Raised(Raise("ValueError", "DuplicateJoinKey"))
         ELSE LET missing_in_left == missing_in(using_columns.cols, l.columns)
                  missing_in_right == missing_in(using_columns.cols, r.columns)
              IN  IF missing_in_left # <<>> \/ missing_in_right # <<>>
                  THEN Raised(MissingJoinColumn(missing_in_left, missing_in_right))
                  ELSE NativeJoinDispatch(eng, l, r, src, using_columns.cols, how)

-----------------------------------------------------------------------------
(* The query execution of the engine: self.source.sql(sql) *)

Null == 0 - 1
RowFields == {"id", "ts", "v"}
NullRow == [f \in RowFields |-> Null]

\* the value of column col in a row: the engine resolves names without case
Val(row, col) == row[Lower(col)]

Abs(x) == IF x < 0 THEN 0 - x ELSE x
Min(S) == CHOOSE x \in S : \A y \in S : x <= y

\* one conjunct of the ON clause, for a left row and a right row; the
\* subquery of "nearest" ranges over every row of the right relation
ClauseHolds(clause, lrow, rrow, rrows) ==
    LET lv == Val(lrow, clause.col)
        rv == Val(rrow, clause.col)
    IN  CASE clause.op = "=" -> lv = rv
          [] clause.op = ">=" -> lv >= rv
          [] clause.op = "<=" -> lv <= rv
          [] clause.op = "nearest" ->
                Abs(lv - rv) = Min({Abs(lv - Val(r2, clause.col)) : r2 \in rrows})

OnHolds(on_clauses, lrow, rrow, rrows) ==
    \A i \in DOMAIN on_clauses : ClauseHolds(on_clauses[i], lrow, rrow, rrows)

LeftJoinRows_Inner(on_clauses, lrows, rrows) ==
    {[l |-> lrow, r |-> rrow] : <<lrow, rrow>> \in
        {p \in lrows \X rrows : OnHolds(on_clauses, p[1], p[2], rrows)}}

\* SELECT ... FROM l LEFT JOIN r ON ...: one output row per matching pair,
\* and one with a null right side per left row without a match
LeftJoinRows(on_clauses, lrows, rrows) ==
    {[l |-> lrow, r |-> rrow] : <<lrow, rrow>> \in
        {p \in lrows \X rrows : OnHolds(on_clauses, p[1], p[2], rrows)}}
    \cup
    {[l |-> lrow, r |-> NullRow] : lrow \in
        {x \in lrows : \A rrow \in rrows : ~OnHolds(on_clauses, x, rrow, rrows)}}

SqlRequest(sql) == [op |-> "sql", sql |-> sql]

\* result = self.source.sql(sql)
ExecuteSql(sql, l, r) ==
    [columns |-> [i \in DOMAIN sql.select |-> sql.select[i].col],
     plan |-> SqlRequest(sql),
     rows |-> LeftJoinRows(sql.on_clauses, l.rows, r.rows)]

-----------------------------------------------------------------------------
(* Relation.asof_join: the body of lines 131-213.  The second body that   *)
(* follows the return of line 213 (it reads a name `direction`) is never  *)
(* executed and is not part of the method.                                *)

\* the keyword the caller passes the comparison with: none, operator=, direction=
NoDirection == [kw |-> "none", val |-> ""]

\* asof_join(self, other, on, by=None, operator=">="): the names a call may bind
AsofParameters == {"other", "on", "by", "operator"}

\* for col in by: l."col" = r."col"
ByClauses(by) == [i \in DOMAIN by |-> [op |-> "=", col |-> by[i]]]

\* select_cols: every left column, then the lowered right columns whose
\* name is not on the left
SelectCols(left_columns, right_columns_raw) ==
    LET right_columns == LowerList(right_columns_raw)
        NotOnLeft(col) == Lower(col) \notin LowerSet(left_columns)
        kept == SelectSeq(right_columns, NotOnLeft)
    IN  [i \in DOMAIN left_columns |-> [side |-> "left", col |-> left_columns[i]]]
        \o [i \in DOMAIN kept |-> [side |-> "right", col |-> kept[i]]]

\* "Columns [...] not found in the first/second relation."
ColumnsNotFound(side, missing) ==
    [Raise("ValueError", "MissingJoinColumn") EXCEPT
        !.missing_left = (IF side = "left" THEN missing ELSE <<>>),
        !.missing_right = (IF side = "right" THEN missing ELSE <<>>),
        !.sides = {side}]

asof_join(l, r, src, on, by_arg, direction) ==
    IF direction.kw \notin AsofParameters \cup {"none"}
    THEN Raised(Raise("TypeError", "UnexpectedKeywordArgument"))
    ELSE
    LET operator == IF direction.kw = "operator" THEN direction.val ELSE ">="
        on_columns == on
        by == IF by_arg.given THEN by_arg.cols ELSE <<>>
        missing_in_self == missing_in(on_columns, l.columns)
        missing_in_other == missing_in(on_columns, r.columns)
        missing_by_self == missing_in(by, l.columns)
        missing_by_other == missing_in(by, r.columns)
    IN  IF l.alias = ""
        THEN Raised(Raise("ValueError", "MissingAlias"))
        ELSE IF r.alias = ""
        THEN Raised(Raise("ValueError", "MissingAlias"))
        ELSE IF missing_in_self # <<>>
        THEN Raised(ColumnsNotFound("left", missing_in_self))
        ELSE IF missing_in_other # <<>>
        THEN Raised(ColumnsNotFound("right", missing_in_other))
        ELSE IF missing_by_self # <<>>
        THEN Raised(ColumnsNotFound("left", missing_by_self))
        ELSE IF missing_by_other # <<>>
        THEN Raised(ColumnsNotFound("right", missing_by_other))
        ELSE IF on_columns = <<>>
        THEN Raised(Raise("IndexError", "EmptyOn"))
        ELSE IF operator \notin {">=", "<=", "nearest"}
        THEN Raised(Raise("ValueError", "InvalidDirection"))
        ELSE LET asof_col == on_columns[1]
                 on_clauses == ByClauses(by) \o <<[op |-> operator, col |-> asof_col]>>
                 sql == [select |-> SelectCols(l.columns, r.columns),
                         from |-> l.alias, join |-> r.alias,
                         on_clauses |-> on_clauses]
             IN  [outcome |-> Relation(ExecuteSql(sql, l, r), src),
                  calls |-> <<SqlRequest(sql)>>]

-----------------------------------------------------------------------------
(* duck_plus.types.FileEntryRelation.apply_transform *)

\* __post_init__: a FileEntryRelation with an empty log and no names
NewFileEntryRelation == [transform_function_log |-> <<>>, transform_names |-> {}]

NoTransformCall == [status |-> "none"]

\* the objects of a chain, the one the next call is made on, the UDFs that
\* were invoked, the (transform, alias) pairs that were applied, the number
\* of calls made and the last call
NoChain ==
    [objects |-> <<NewFileEntryRelation>>, self |-> 1, invoked |-> <<>>,
     applied |-> <<>>, calls |-> 0, last |-> NoTransformCall]

AliasAlreadyApplied_Never(transform_names, transform_alias) == FALSE

\* transform_alias in self.transform_names
AliasAlreadyApplied(transform_names, transform_alias) ==
    transform_alias \in transform_names

\* not re_apply_udf and transform in self.transform_function_log
UdfAlreadyApplied(transform_function_log, transform, re_apply_udf) ==
    /\ re_apply_udf # "True"
    /\ \E i \in DOMAIN transform_function_log : transform_function_log[i] = transform

\* raise TransformAlreadyAppliedError(...): nothing was invoked or assigned
TransformAlreadyApplied(objects, self) ==
    [status |-> "TransformAlreadyAppliedError", objects |-> objects,
     result |-> self, invoked |-> FALSE]

\* what the UDF does with the receiver: it returns the receiver itself,
\* returns a FileEntryRelation it built, or raises
apply_transform(objects, self, transform, transform_alias, re_apply_udf, udf) ==
    IF AliasAlreadyApplied(objects[self].transform_names, transform_alias)
    THEN TransformAlreadyApplied(objects, self)
    ELSE IF UdfAlreadyApplied(objects[self].transform_function_log, transform, re_apply_udf)
    THEN TransformAlreadyApplied(objects, self)
    ELSE IF udf = "raises"
    THEN [status |-> "UdfError", objects |-> objects, result |-> self,
          invoked |-> TRUE]
    ELSE LET returned == IF udf = "returns_self"
                         THEN objects
                         ELSE Append(objects, NewFileEntryRelation)
             result == IF udf = "returns_self" THEN self ELSE Len(returned)
             logged == [returned EXCEPT
                          ![result].transform_function_log =
                              returned[self].transform_function_log \o <<transform>>]
             named == [logged EXCEPT
                          ![result].transform_names =
                              logged[self].transform_names \cup {transform_alias}]
         IN  [status |-> "ok", objects |-> named, result |-> result,
              invoked |-> TRUE]

-----------------------------------------------------------------------------
(* Inputs *)

Hows ==
    {"inner", "left", "right", "full", "outer", "semi", "anti", "bogus"}
    \cup NaturalPrefixed

UsingColumnsArgs == {None} \cup {Some(k) : k \in SeqsUpTo(KeyNames, MaxKeys)}

OnNames == {"ts", "zz"}
OnArgs == SeqsUpTo(OnNames, MaxOn)
ByArgs == UsingColumnsArgs

DirectionArgs ==
    {NoDirection}
    \cup {[kw |-> "operator", val |-> v] :
            v \in {">=", "<=", "nearest", "forward", "invalid"}}
    \cup {[kw |-> "direction", val |-> v] :
            v \in {"backward", "forward", "nearest", "invalid"}}

Connections == {"conn"}

NoCall == [op |-> "none"]

Start ==
    /\ source \in Connections
    /\ pc = "idle"
    /\ call = NoCall
    /\ outcome = NoOutcome
    /\ engineCalls = <<>>
    /\ fer = NoChain

UsingJoin(how, using_columns) ==
    /\ pc = "idle"
    /\ LET res == using_join(engine, left, right, source, how, using_columns)
       IN  /\ outcome' = res.outcome
           /\ engineCalls' = engineCalls \o res.calls
    /\ call' = [op |-> "using_join", how |-> how, using_columns |-> using_columns]
    /\ pc' = "done"
    /\ UNCHANGED <<left, right, source, engine, fer>>

AsofJoin(on, by, direction) ==
    /\ pc = "idle"
    /\ LET res == asof_join(left, right, source, on, by, direction)
       IN  /\ outcome' = res.outcome
           /\ engineCalls' = engineCalls \o res.calls
    /\ call' = [op |-> "asof_join", on |-> on, by |-> by, direction |-> direction]
    /\ pc' = "done"
    /\ UNCHANGED <<left, right, source, engine, fer>>

UsingJoinCall ==
    \E how \in Hows, using_columns \in UsingColumnsArgs :
        UsingJoin(how, using_columns)

AsofJoinCall ==
    \E on \in OnArgs, by \in ByArgs, direction \in DirectionArgs :
        AsofJoin(on, by, direction)

(* Spec: using_join on every pair of tables *)

JoinRelations ==
    {[alias |-> "t", columns |-> cols, rows |-> {}] : cols \in ColumnLists(MaxCols)}

Init ==
    /\ left \in JoinRelations
    /\ right \in JoinRelations
    /\ engine \in EngineVariants
    /\ Start

Next == UsingJoinCall

Spec == Init /\ [][Next]_vars

(* SpecValidation: both methods on relations with and without an alias *)

ValidationColumnLists ==
    {<<"id", "ts">>, <<"ID", "ts", "v">>, <<"ts">>, <<"v">>}

ValidationRelations ==
    {[alias |-> a, columns |-> cols, rows |-> {}] :
        a \in {"", "t"}, cols \in ValidationColumnLists}

InitValidation ==
    /\ left \in ValidationRelations
    /\ right \in ValidationRelations
    /\ engine \in EngineVariants
    /\ Start

NextValidation == UsingJoinCall \/ AsofJoinCall

SpecValidation == InitValidation /\ [][NextValidation]_vars

(* SpecAsof: asof_join on tables with rows *)

Rows ==
    {[id |-> g, ts |-> t, v |-> 0] : g \in 1..MaxGroup, t \in 1..MaxTime}

RowSets(lo, hi) == {S \in SUBSET Rows : lo <= Cardinality(S) /\ Cardinality(S) <= hi}

AsofOnArgs == {<<"ts">>}
AsofByArgs == {None, Some(<<"id">>)}

InitAsof ==
    /\ left \in {[alias |-> "t5", columns |-> <<"id", "ts">>, rows |-> rows] :
                    rows \in RowSets(1, MaxLeftRows)}
    /\ right \in {[alias |-> "t6", columns |-> <<"ID", "TS", "v">>, rows |-> rows] :
                    rows \in RowSets(0, MaxRightRows)}
    /\ engine \in {"using"}
    /\ Start

NextAsof ==
    \E on \in AsofOnArgs, by \in AsofByArgs, direction \in DirectionArgs :
        AsofJoin(on, by, direction)

SpecAsof == InitAsof /\ [][NextAsof]_vars

(* SpecTransform: a chain of apply_transform calls from a new FileEntryRelation *)

Transforms == {"f", "g"}
TransformAliases == {"a", "b", "c"}
ReApplyArgs == {"None", "False", "True"}
UdfBehaviours == {"returns_self", "returns_new", "raises"}

ApplyTransform(transform, transform_alias, re_apply_udf, udf) ==
    /\ fer.calls < MaxCalls
    /\ LET res == apply_transform(fer.objects, fer.self, transform,
                                  transform_alias, re_apply_udf, udf)
       IN  fer' =
             [objects |-> res.objects,
              self |-> res.result,
              invoked |-> IF res.invoked THEN Append(fer.invoked, transform)
                          ELSE fer.invoked,
              applied |-> IF res.status = "ok"
                          THEN Append(fer.applied,
                                      [transform |-> transform, alias |-> transform_alias])
                          ELSE fer.applied,
              calls |-> fer.calls + 1,
              last |-> [status |-> res.status, transform |-> transform,
                        transform_alias |-> transform_alias,
                        re_apply_udf |-> re_apply_udf,
                        receiver |-> fer.objects[fer.self],
                        before |-> [objects |-> fer.objects, self |-> fer.self,
                                    invoked |-> fer.invoked]]]
    /\ UNCHANGED <<left, right, source, engine, pc, call, outcome, engineCalls>>

InitTransform ==
    /\ left = [alias |-> "t", columns |-> <<"id">>, rows |-> {}]
    /\ right = [alias |-> "t", columns |-> <<"id">>, rows |-> {}]
    /\ engine = "using"
    /\ Start

NextTransform ==
    \E transform \in Transforms, transform_alias \in TransformAliases,
       re_apply_udf \in ReApplyArgs, udf \in UdfBehaviours :
        ApplyTransform(transform, transform_alias, re_apply_udf, udf)

SpecTransform == InitTransform /\ [][NextTransform]_vars

-----------------------------------------------------------------------------
(* Properties of using_join *)

DoneUsing == pc = "done" /\ call.op = "using_join"
DoneAsof == pc = "done" /\ call.op = "asof_join"

\* col is, case-insensitively, a name of cols
OnSide(col, cols) == \E i \in DOMAIN cols : Lower(cols[i]) = Lower(col)

\* the columns of the right input whose case-folded name is not on the left
RightOnly ==
    LET Fresh(col) == ~OnSide(col, left.columns)
    IN  SelectSeq(right.columns, Fresh)

\* the keys of a list that one side lacks, in the order of the list
Lacking(keys, cols) ==
    LET Absent(col) == ~OnSide(col, cols)
    IN  SelectSeq(keys, Absent)

\* a key list names the same column twice, compared case-insensitively
SameKeyTwice(keys) ==
    \E i, j \in DOMAIN keys : i # j /\ Lower(keys[i]) = Lower(keys[j])

\* the kinds of the closed set, as the signature of using_join spells them
ClosedKinds ==
    {"inner", "left", "right", "full", "outer", "semi", "anti",
     "natural", "natural left", "natural semi", "natural anti"}

NaturalKinds == {"natural", "natural left", "natural semi", "natural anti"}

\* C1: a using_join of kind inner, left, right, full, semi or anti with a
\* valid explicit key list returns exactly the left columns followed by
\* the right columns whose case-folded name is not on the left, whatever
\* the native primitive returned.
C1_OutputColumnsRestored ==
    (/\ DoneUsing
     /\ call.how \in {"inner", "left", "right", "full", "semi", "anti"}
     /\ outcome.status = "ok")
    => outcome.columns = left.columns \o RightOnly

\* C3 as stated: a key list with a case-insensitive duplicate fails with
\* DuplicateJoinKey for every kind, natural and unrecognized kinds
\* included, and never reaches the engine.
C3_DuplicateKeyForEveryKind ==
    (DoneUsing /\ SameKeyTwice(call.using_columns.cols))
    => /\ outcome.status = "error"
       /\ outcome.error = "DuplicateJoinKey"
       /\ engineCalls = <<>>

\* C3 amended: a key list with a case-insensitive duplicate never reaches
\* the engine; it fails with DuplicateJoinKey for every kind that does not
\* start with "natural" (unrecognized kinds included) and with
\* ExplicitKeysNotAllowedForNaturalJoin for every kind that does.
C3_DuplicateKeyRejected ==
    (DoneUsing /\ SameKeyTwice(call.using_columns.cols))
    => /\ outcome.status = "error"
       /\ engineCalls = <<>>
       /\ outcome.error = IF call.how \in NaturalPrefixed
                          THEN "ExplicitKeysNotAllowedForNaturalJoin"
                          ELSE "DuplicateJoinKey"

C3_Witness ==
    /\ DoneUsing
    /\ call.how = "bogus"
    /\ call.using_columns.cols = <<"id", "ID">>
    /\ OnSide("id", left.columns) /\ OnSide("id", right.columns)
    /\ outcome.error = "DuplicateJoinKey"
    /\ engineCalls = <<>>

\* the report C4 asks for: MissingJoinColumn naming exactly the sides that
\* lack a key and exactly the keys each side lacks
ExactMissingReport ==
    LET keys == call.using_columns.cols
        lackLeft == Lacking(keys, left.columns)
        lackRight == Lacking(keys, right.columns)
    IN  /\ outcome.status = "error"
        /\ outcome.error = "MissingJoinColumn"
        /\ outcome.missing_left = lackLeft
        /\ outcome.missing_right = lackRight
        /\ ("left" \in outcome.sides) = (lackLeft # <<>>)
        /\ ("right" \in outcome.sides) = (lackRight # <<>>)
        /\ engineCalls = <<>>

SomeKeyAbsent ==
    \E i \in DOMAIN call.using_columns.cols :
        \/ ~OnSide(call.using_columns.cols[i], left.columns)
        \/ ~OnSide(call.using_columns.cols[i], right.columns)

\* C4 as stated: with a non-natural kind, a key list with a key absent
\* from the left, the right or both always fails with MissingJoinColumn
\* naming exactly the sides and keys that are missing.
C4_MissingKeyAlwaysReported ==
    (DoneUsing /\ call.how \notin NaturalPrefixed /\ SomeKeyAbsent)
    => ExactMissingReport

\* C4 amended: the same, for key lists that name no column twice
\* (case-insensitively); a list that does fails with DuplicateJoinKey
\* before the columns are looked up.
C4_MissingKeyReported ==
    (DoneUsing /\ call.how \notin NaturalPrefixed /\ SomeKeyAbsent)
    => IF SameKeyTwice(call.using_columns.cols)
       THEN outcome.error = "DuplicateJoinKey" /\ engineCalls = <<>>
       ELSE ExactMissingReport

C4_Witness ==
    /\ DoneUsing
    /\ call.how = "left"
    /\ call.using_columns.cols = <<"ID", "zz">>
    /\ left.columns = <<"v">>
    /\ right.columns = <<"id", "v">>
    /\ outcome.error = "MissingJoinColumn"
    /\ outcome.missing_left = <<"ID", "zz">>
    /\ outcome.missing_right = <<"zz">>
    /\ outcome.sides = {"left", "right"}

\* C5: every kind outside the closed set fails with UnsupportedJoinKind
\* raised by using_join itself, and is never sent to the native primitive.
C5_UnrecognizedKindRejected ==
    (DoneUsing /\ call.how \notin ClosedKinds)
    => /\ outcome.status = "error"
       /\ outcome.error = "UnsupportedJoinKind"
       /\ engineCalls = <<>>

\* the natural key set: the left columns whose case-folded name is on the
\* right, in the order of the left
NaturalKeySet ==
    LET Shared(col) == OnSide(col, right.columns)
    IN  SelectSeq(left.columns, Shared)

NoExplicitKeys == call.using_columns.cols = <<>>

\* C6: when using_join infers the keys of a natural join (a kind starting
\* with "natural", no explicit keys) the keys it joins on are the natural
\* key set, the recognized natural kinds do join on it, and with no
\* common column the call fails with NoCommonColumns and sends the engine
\* nothing.
C6_NaturalKeyInference ==
    (DoneUsing /\ call.how \in NaturalPrefixed /\ NoExplicitKeys)
    => IF NaturalKeySet = <<>>
       THEN /\ outcome.status = "error"
            /\ outcome.error = "NoCommonColumns"
            /\ engineCalls = <<>>
       ELSE /\ \A i \in DOMAIN engineCalls : engineCalls[i].keys = NaturalKeySet
            /\ call.how \in NaturalKinds => Len(engineCalls) = 1

C6_Witness ==
    /\ DoneUsing
    /\ call.how = "natural left"
    /\ left.columns = <<"ts", "ID">>
    /\ right.columns = <<"id", "ts">>
    /\ Len(engineCalls) = 1
    /\ engineCalls[1].keys = <<"ts", "ID">>

\* C7: a natural kind with a non-empty explicit key list fails with
\* ExplicitKeysNotAllowedForNaturalJoin before the keys are inferred and
\* before any join, whatever the columns are; with an absent or empty key
\* list a natural kind does not fail that way.
C7_NaturalRejectsExplicitKeys ==
    (DoneUsing /\ call.how \in NaturalKinds)
    => IF call.using_columns.given /\ Len(call.using_columns.cols) > 0
       THEN /\ outcome.status = "error"
            /\ outcome.error = "ExplicitKeysNotAllowedForNaturalJoin"
            /\ engineCalls = <<>>
       ELSE outcome.error # "ExplicitKeysNotAllowedForNaturalJoin"

C7_Witness ==
    /\ DoneUsing
    /\ call.how = "natural anti"
    /\ call.using_columns.cols = <<"id">>
    /\ NaturalKeySet = <<>>
    /\ outcome.error = "ExplicitKeysNotAllowedForNaturalJoin"
    /\ engineCalls = <<>>

\* the kind a natural kind stands for
MappedKind(how) ==
    CASE how = "natural" -> "inner"
      [] how = "natural left" -> "left"
      [] how = "natural semi" -> "semi"
      [] how = "natural anti" -> "anti"

OnlyCommonIsId == LowerList(NaturalKeySet) = <<"id">>

\* the call using_join(other, how = the mapped kind, using_columns = ["id"])
\* on the same two relations
ExplicitIdJoin ==
    using_join(engine, left, right, source, MappedKind(call.how), Some(<<"id">>))

NaturalCallOnId ==
    /\ DoneUsing
    /\ call.how \in NaturalKinds
    /\ NoExplicitKeys
    /\ OnlyCommonIsId

\* C8 as stated: on relations whose only common case-folded column is id,
\* a natural call sends the engine the same request and returns the same
\* relation as the explicit call with ["id"] and the mapped kind.
C8_NaturalSameAsExplicit ==
    NaturalCallOnId
    => /\ engineCalls = ExplicitIdJoin.calls
       /\ outcome = ExplicitIdJoin.outcome

\* C8 amended: the natural call sends the same right relation and the same
\* kind as the explicit call, and a key list that is the explicit one up
\* to letter case (it carries the left relation's spelling); when the left
\* relation spells the column id, the requests and the returned relations
\* (columns, rows, connection) are identical.
C8_NaturalSameAsExplicitUpToCase ==
    NaturalCallOnId
    => /\ Len(engineCalls) = 1
       /\ Len(ExplicitIdJoin.calls) = 1
       /\ engineCalls[1].right = ExplicitIdJoin.calls[1].right
       /\ engineCalls[1].kind = ExplicitIdJoin.calls[1].kind
       /\ LowerList(engineCalls[1].keys) = ExplicitIdJoin.calls[1].keys
       /\ outcome.source = ExplicitIdJoin.outcome.source
       /\ NaturalKeySet = <<"id">>
            => /\ engineCalls = ExplicitIdJoin.calls
               /\ outcome = ExplicitIdJoin.outcome

C8_Witness ==
    /\ NaturalCallOnId
    /\ call.how = "natural left"
    /\ left.columns = <<"id", "ts">>
    /\ right.columns = <<"v", "ID">>
    /\ outcome.status = "ok"
    /\ engineCalls[1].kind = "left"
    /\ engineCalls[1].keys = <<"id">>

-----------------------------------------------------------------------------
(* Properties of asof_join *)

\* the direction a call asks for: backward by default, ">=" and "<=" are
\* the operator spellings of backward and forward
Direction ==
    CASE call.direction.kw = "none" -> "backward"
      [] call.direction.kw = "operator" /\ call.direction.val = ">=" -> "backward"
      [] call.direction.kw = "operator" /\ call.direction.val = "<=" -> "forward"
      [] OTHER -> call.direction.val

\* the right rows in the group of a left row
SameGroup(lrow) ==
    {rrow \in right.rows :
        \A i \in DOMAIN call.by.cols :
            Val(lrow, call.by.cols[i]) = Val(rrow, call.by.cols[i])}

\* the right rows that qualify for a left row in the direction of the call
Qualifying(lrow) ==
    LET on == call.on[1]
    IN  {rrow \in SameGroup(lrow) :
            IF Direction = "backward"
            THEN Val(rrow, on) <= Val(lrow, on)
            ELSE Val(rrow, on) >= Val(lrow, on)}

\* the one right row an as-of join matches: the latest qualifying one
\* backward, the earliest forward
AsofMatch(lrow) ==
    LET on == call.on[1]
    IN  CHOOSE best \in Qualifying(lrow) :
            \A rrow \in Qualifying(lrow) :
                IF Direction = "backward"
                THEN Val(rrow, on) <= Val(best, on)
                ELSE Val(rrow, on) >= Val(best, on)

OutputOf(lrow) == {row \in outcome.rows : row.l = lrow}

\* C2: a successful backward (forward) as-of join outputs every left row
\* at most once, and a left row with a qualifying right row exactly once,
\* matched with the qualifying right row of the greatest (smallest)
\* comparison value.
C2_AsofMatchesOneRow ==
    (DoneAsof /\ outcome.status = "ok" /\ Direction \in {"backward", "forward"})
    => \A lrow \in left.rows :
          /\ Cardinality(OutputOf(lrow)) <= 1
          /\ Qualifying(lrow) # {}
               => OutputOf(lrow) = {[l |-> lrow, r |-> AsofMatch(lrow)]}

AsofColumnsValid ==
    /\ left.alias # "" /\ right.alias # ""
    /\ call.on # <<>>
    /\ \A i \in DOMAIN call.on :
          OnSide(call.on[i], left.columns) /\ OnSide(call.on[i], right.columns)
    /\ \A i \in DOMAIN call.by.cols :
          /\ OnSide(call.by.cols[i], left.columns)
          /\ OnSide(call.by.cols[i], right.columns)

SomeByAbsent ==
    \E i \in DOMAIN call.by.cols :
        \/ ~OnSide(call.by.cols[i], left.columns)
        \/ ~OnSide(call.by.cols[i], right.columns)

\* C9: a call of using_join or asof_join that ends in a validation error
\* has sent the engine nothing; and an asof_join with a by column absent
\* from either relation fails with MissingJoinColumn, the engine untouched,
\* whatever on and direction are.
C9_ValidationBeforeEngine ==
    /\ (pc = "done" /\ outcome.status = "error" /\ outcome.exception # "EngineError")
         => engineCalls = <<>>
    /\ (DoneAsof /\ SomeByAbsent)
         => /\ outcome.status = "error"
            /\ outcome.error = "MissingJoinColumn"
            /\ engineCalls = <<>>

\* the first half of C9 alone, which the code keeps: no error raised by
\* using_join or asof_join themselves follows a request to the engine
ValidationErrorsPrecedeEngine ==
    (pc = "done" /\ outcome.status = "error" /\ outcome.exception # "EngineError")
    => engineCalls = <<>>

\* C10: on valid columns, asof_join called with direction forward returns
\* a relation, and called with a direction other than backward, forward
\* and nearest fails with InvalidDirection, a ValueError.
C10_DirectionAccepted ==
    (DoneAsof /\ call.direction.kw = "direction" /\ AsofColumnsValid)
    => /\ call.direction.val = "forward" => outcome.status = "ok"
       /\ call.direction.val \notin {"backward", "forward", "nearest"}
            => /\ outcome.status = "error"
               /\ outcome.exception = "ValueError"
               /\ outcome.error = "InvalidDirection"

\* the right rows that qualify for a left row in any of the three
\* directions: nearest has no bound on the comparison value
QualifyingAnyDirection(lrow) ==
    LET on == call.on[1]
    IN  {rrow \in SameGroup(lrow) :
            CASE Direction = "backward" -> Val(rrow, on) <= Val(lrow, on)
              [] Direction = "forward" -> Val(rrow, on) >= Val(lrow, on)
              [] OTHER -> TRUE}

\* the value an output row shows in one column of the select list
OutputValue(row, item) ==
    IF item.side = "left" THEN Val(row.l, item.col) ELSE Val(row.r, item.col)

RightOutputColumns ==
    {outcome.plan.sql.select[i] : i \in
        {j \in DOMAIN outcome.plan.sql.select : outcome.plan.sql.select[j].side = "right"}}

\* C11: a successful asof_join, in every direction, outputs every left
\* row; a left row without a qualifying right row is output exactly once,
\* with null in every output column that comes from the right.
C11_LeftRowsPreserved ==
    (DoneAsof /\ outcome.status = "ok")
    => /\ \A lrow \in left.rows :
            /\ OutputOf(lrow) # {}
            /\ QualifyingAnyDirection(lrow) = {}
                 => /\ Cardinality(OutputOf(lrow)) = 1
                    /\ \A row \in OutputOf(lrow) :
                          \A item \in RightOutputColumns :
                              OutputValue(row, item) = Null
       /\ \A row \in outcome.rows : row.l \in left.rows

C11_Witness ==
    /\ DoneAsof
    /\ outcome.status = "ok"
    /\ Direction = "nearest"
    /\ call.by = Some(<<"id">>)
    /\ right.rows # {}
    /\ RightOutputColumns # {}
    /\ \E lrow \in left.rows :
          /\ QualifyingAnyDirection(lrow) = {}
          /\ OutputOf(lrow) = {[l |-> lrow, r |-> NullRow]}

-----------------------------------------------------------------------------
(* Properties of FileEntryRelation.apply_transform *)

\* the FileEntryRelation the next call of the chain is made on
ChainHead == fer.objects[fer.self]

\* the last call left every object, the chain head and the invoked UDFs
\* as they were
LastCallChangedNothing ==
    /\ fer.objects = fer.last.before.objects
    /\ fer.self = fer.last.before.self
    /\ fer.invoked = fer.last.before.invoked

LastCallRejected ==
    /\ fer.last.status = "TransformAlreadyAppliedError"
    /\ LastCallChangedNothing

\* C12: along a chain of apply_transform calls that starts from an empty
\* log and an empty name set, no alias is applied twice; a call whose
\* alias is already among the names, or whose transform is already in the
\* log while re_apply_udf is unset, raises TransformAlreadyAppliedError
\* without invoking the transform or changing log and names; a successful
\* call yields the receiver's log plus the transform and the receiver's
\* names plus the alias; and there are as many names as log entries.
C12_TransformNeverReapplied ==
    /\ Cardinality(ChainHead.transform_names) = Len(ChainHead.transform_function_log)
    /\ \A i, j \in DOMAIN fer.applied :
          i # j => fer.applied[i].alias # fer.applied[j].alias
    /\ fer.last.status # "none"
         => /\ fer.last.transform_alias \in fer.last.receiver.transform_names
                 => LastCallRejected
            /\ (/\ fer.last.re_apply_udf = "None"
                /\ \E i \in DOMAIN fer.last.receiver.transform_function_log :
                      fer.last.receiver.transform_function_log[i] = fer.last.transform)
                 => LastCallRejected
            /\ fer.last.status = "ok"
                 => /\ ChainHead.transform_function_log =
                          fer.last.receiver.transform_function_log
                              \o <<fer.last.transform>>
                    /\ ChainHead.transform_names =
                          fer.last.receiver.transform_names
                              \cup {fer.last.transform_alias}
                    /\ fer.invoked = Append(fer.last.before.invoked, fer.last.transform)

C12_Witness ==
    /\ fer.applied = <<[transform |-> "f", alias |-> "a"],
                       [transform |-> "f", alias |-> "b"]>>
    /\ fer.last.status = "TransformAlreadyAppliedError"
    /\ fer.last.transform = "g"
    /\ fer.last.transform_alias = "a"
    /\ fer.last.re_apply_udf = "True"
    /\ fer.invoked = <<"f", "f">>
    /\ ChainHead.transform_function_log = <<"f", "f">>
    /\ ChainHead.transform_names = {"a", "b"}

====
